---- MODULE Spec2Model ----
(***************************************************************************)
(* Authenticated API-access core of the UnoPim MCP server:                 *)
(*   - OAuthManager  (auth/oauth.ts): token cache, acquisition, refresh    *)
(*   - UnoPimClient  (client/unopim-client.ts): request() retry loop       *)
(*   - UnoPimApiError (types/errors.ts): classification of HTTP statuses   *)
(*                                                                         *)
(* Each logical task is one async call chain.  A step of the model is the  *)
(* code that runs between two awaits: timers and network responses are     *)
(* the points where a task suspends.  The server's answers, the lifetime   *)
(* of the tokens it issues and the passing of time are the environment's   *)
(* choice.  Times are in milliseconds, as in the code.  The clock is       *)
(* coarser than the backoff delays: a sleep records the delay it was       *)
(* asked for, and the clock advances by Tick.                              *)
(***************************************************************************)
EXTENDS Integers, Sequences, FiniteSets, TLC

VARIABLES
    tokenCache,   \* OAuthManager.tokenCache (Null when null)
    now,          \* Date.now()
    issued,       \* number of token responses the token endpoint has issued
    task,         \* per logical task: the position and locals of its call
    rv            \* the product-value resolver: one smart-create call chain

vars == <<tokenCache, now, issued, task, rv>>

-----------------------------------------------------------------------------
(* Bounds of the model *)

MaxCalls == 2      \* request() calls a task makes
MaxTicks == 2      \* clock advances
MaxIssued == 2     \* token responses the token endpoint issues
MaxConcCalls == 1  \* request() calls per task when two tasks run interleaved
MaxAttrs == 2      \* attribute codes a family lists

Tasks == {"t1", "t2"}
\* Spec runs the calls of one task one after the other.
SeqTasks == {"t1"}

-----------------------------------------------------------------------------
(* Program constants *)

REFRESH_BUFFER_MS == 5 * 60 * 1000

OAuth_MAX_RETRIES == 3
OAuth_RETRY_DELAYS_Flat == <<0, 1000, 1000>>
OAuth_RETRY_DELAYS == <<0, 1000, 3000>>

Client_MAX_RETRIES_Four == 3 + 1
Client_MAX_RETRIES == 3
Client_RETRY_DELAYS_NoFirstWait == <<0, 0, 3000>>
Client_RETRY_DELAYS == <<0, 1000, 3000>>

\* RETRY_DELAYS[attempt] of a 0-based JavaScript array; an index past the end
\* reads undefined, and setTimeout(resolve, undefined) fires without delay.
DelayAt(delays, attempt) ==
    IF attempt + 1 \in DOMAIN delays THEN delays[attempt + 1] ELSE 0

-----------------------------------------------------------------------------
(* Environment: the clock, the token endpoint, the resource endpoints *)

ClockStep == REFRESH_BUFFER_MS

\* expires_in (seconds) of the token responses: 5 and 10 minutes
ExpiresInChoices == {300, 600}

\* statuses the token endpoint answers with; 0 stands for a fetch that throws
TokenStatuses == {0, 200, 401, 500}

TokenResponse(n, e) ==
    [access_token |-> n, refresh_token |-> n, expires_in |-> e]

\* statuses of the resource endpoints, one or more per branch of fromResponse
Statuses == {200, 204, 400, 401, 404, 409, 422, 429, 500}

Http(s, j) == [kind |-> "http", status |-> s, json |-> j]
Timeout == [kind |-> "timeout", status |-> 0, json |-> FALSE]
ConnFail == [kind |-> "connfail", status |-> 0, json |-> FALSE]

\* what one fetch of a resource can end in: a response with a body that parses
\* as JSON, a 200 whose body does not, an abort by the timeout, a rejection
ResourceOutcomes ==
    {Http(s, TRUE) : s \in Statuses} \cup {Http(200, FALSE), Timeout, ConnFail}

-----------------------------------------------------------------------------
(* types/errors.ts *)

ApiError(code, retryPossible) ==
    [ok |-> FALSE, code |-> code, retryPossible |-> retryPossible]

Success == [ok |-> TRUE, code |-> "NONE", retryPossible |-> FALSE]
\* an exception that is no UnoPimApiError
RawError == [ok |-> FALSE, code |-> "RAW", retryPossible |-> FALSE]
NoResult == [ok |-> FALSE, code |-> "NONE", retryPossible |-> FALSE]

fromResponse_ValidationRetryable(statusCode) ==
    CASE statusCode = 401 -> ApiError("AUTH_FAILED", TRUE)
      [] statusCode = 404 -> ApiError("NOT_FOUND", FALSE)
      [] statusCode = 409 -> ApiError("DUPLICATE_CODE", FALSE)
      [] statusCode = 422 -> ApiError("VALIDATION_ERROR", TRUE)
      [] statusCode = 429 -> ApiError("RATE_LIMITED", TRUE)
      [] statusCode \in {500, 502, 503, 504} -> ApiError("SERVER_ERROR", TRUE)
      [] OTHER -> ApiError("SERVER_ERROR", statusCode >= 500)

fromResponse(statusCode) ==
    CASE statusCode = 401 -> ApiError("AUTH_FAILED", TRUE)
      [] statusCode = 404 -> ApiError("NOT_FOUND", FALSE)
      [] statusCode = 409 -> ApiError("DUPLICATE_CODE", FALSE)
      [] statusCode = 422 -> ApiError("VALIDATION_ERROR", FALSE)
      [] statusCode = 429 -> ApiError("RATE_LIMITED", TRUE)
      [] statusCode \in {500, 502, 503, 504} -> ApiError("SERVER_ERROR", TRUE)
      [] OTHER -> ApiError("SERVER_ERROR", statusCode >= 500)

networkError == ApiError("NETWORK_ERROR", TRUE)

\* Response.ok
ResponseOk(status) == status >= 200 /\ status <= 299

-----------------------------------------------------------------------------
(* auth/oauth.ts *)

Null == [accessToken |-> 0, refreshToken |-> 0, expiresAt |-> 0]

cacheToken_KeepExpiry(tokenResponse) ==
    [accessToken |-> tokenResponse.access_token,
     refreshToken |-> tokenResponse.refresh_token,
     expiresAt |-> tokenCache.expiresAt]

cacheToken_KeepAccessToken(tokenResponse) ==
    [accessToken |-> tokenCache.accessToken,
     refreshToken |-> tokenResponse.refresh_token,
     expiresAt |-> now + (tokenResponse.expires_in * 1000)]

cacheToken(tokenResponse) ==
    [accessToken |-> tokenResponse.access_token,
     refreshToken |-> tokenResponse.refresh_token,
     expiresAt |-> now + (tokenResponse.expires_in * 1000)]

isTokenValid_Reversed ==
    IF tokenCache = Null THEN FALSE ELSE now > tokenCache.expiresAt

isTokenValid ==
    IF tokenCache = Null THEN FALSE ELSE now < tokenCache.expiresAt

shouldRefresh ==
    IF tokenCache = Null THEN FALSE
    ELSE now >= (tokenCache.expiresAt - REFRESH_BUFFER_MS)

clearCache_KeepsToken == tokenCache

\* clearCache(): the value tokenCache is set to
clearCache == Null

\* The state of the token as the documentation names it: Empty, Valid (more
\* than the refresh buffer before expiry), NearExpiry (within the buffer),
\* Expired.  The code never computes it; getAccessToken() records it on entry.
CacheState ==
    IF tokenCache = Null THEN "Empty"
    ELSE IF now >= tokenCache.expiresAt THEN "Expired"
    ELSE IF now >= tokenCache.expiresAt - REFRESH_BUFFER_MS THEN "NearExpiry"
    ELSE "Valid"

-----------------------------------------------------------------------------
(* The locals of one task *)

IdleTask ==
    [pc |-> "idle", calls |-> 0,
     \* the method of UnoPimClient the task runs: request() or postMultipart()
     op |-> "request",
     \* request() / postMultipart()
     attempt |-> 0, nreq |-> 0, responses |-> <<>>, waits |-> <<>>,
     clears |-> 0, tokReqs |-> 0, accessToken |-> 0, result |-> NoResult,
     \* acquireToken() / refreshToken()
     grant |-> "none", oattempt |-> 0, body |-> 0,
     \* the getAccessToken() call under way or last returned: the state and
     \* the access token of the cache on entry, its token requests, what it
     \* returned
     gtState |-> "Empty", gtTok |-> 0, gtLog |-> <<>>, gtRet |-> 0,
     \* the getAccessToken() call before it
     prevState |-> "Empty", prevRet |-> 0]

\* fetch(url, ...) of request(): the resource request leaves with accessToken
IssueFetch(r, accessToken) ==
    [r EXCEPT !.pc = "fetch", !.accessToken = accessToken,
              !.gtRet = accessToken, !.nreq = @ + 1]

\* fetch(`${baseUrl}/oauth/token`) of attempt a of acquireToken / refreshToken,
\* after the wait the loop made before it
IssueTokenRequest(r, g, a) ==
    [r EXCEPT !.pc = "tokWait", !.grant = g, !.oattempt = a,
              !.tokReqs = @ + 1,
              !.gtLog = Append(@, [grant |-> g,
                                   wait |-> IF a > 0
                                            THEN DelayAt(OAuth_RETRY_DELAYS, a)
                                            ELSE 0,
                                   res |-> "pending"])]

acquireToken_Dedup(r) ==
    IF \E u \in Tasks : task[u].pc = "tokWait" /\ task[u].grant = "password"
    THEN [r EXCEPT !.pc = "gtReturn"]
    ELSE IssueTokenRequest([r EXCEPT !.body = 0], "password", 0)

\* acquireToken() up to its first await: the password grant
acquireToken(r) ==
    IssueTokenRequest([r EXCEPT !.body = 0], "password", 0)

\* refreshToken() up to its first await: the body carries the cached
\* refresh token, read once before the loop
refreshToken(r) ==
    IssueTokenRequest([r EXCEPT !.body = tokenCache.refreshToken],
                      "refresh_token", 0)

\* getAccessToken() up to its first await
getAccessToken(r) ==
    LET e == [r EXCEPT !.prevState = r.gtState, !.prevRet = r.gtRet,
                       !.gtState = CacheState,
                       !.gtTok = tokenCache.accessToken,
                       !.gtLog = <<>>, !.gtRet = 0]
    IN IF tokenCache # Null /\ isTokenValid
       THEN IssueFetch(e, tokenCache.accessToken)
       ELSE IF tokenCache # Null /\ shouldRefresh
            THEN refreshToken(e)
            ELSE acquireToken(e)

-----------------------------------------------------------------------------
(* client/unopim-client.ts: request() *)

Finish(r, result) == [r EXCEPT !.pc = "done", !.result = result]

\* `continue`: the next iteration of the for loop, up to its sleep
NextAttempt(r, cause) ==
    LET a == r.attempt + 1
    IN IF a < Client_MAX_RETRIES
       THEN [r EXCEPT !.pc = "sleep", !.attempt = a,
                      !.waits = Append(@, [delay |-> DelayAt(Client_RETRY_DELAYS, a),
                                           cause |-> cause])]
       ELSE Finish(r, ApiError("SERVER_ERROR", FALSE))

\* outer catch, error instanceof UnoPimApiError
CatchApiError(r, error, cause) ==
    IF error.retryPossible /\ r.attempt < Client_MAX_RETRIES - 1
    THEN NextAttempt(r, cause)
    ELSE Finish(r, error)

CatchOther_Rethrow(r, cause) ==
    IF r.attempt < Client_MAX_RETRIES - 1
    THEN NextAttempt(r, cause)
    ELSE Finish(r, RawError)

\* outer catch, any other error
CatchOther(r, cause) ==
    IF r.attempt < Client_MAX_RETRIES - 1
    THEN NextAttempt(r, cause)
    ELSE Finish(r, networkError)

\* the catch of getAccessToken(): a failed refresh falls back to acquireToken()
RefreshFailed_Rethrow(r) == CatchOther(r, 0)

RefreshFailed_RefreshAgain(r) == refreshToken(r)

RefreshFailed(r) == acquireToken(r)

Is401Retry_Never(o, attempt) == FALSE

\* response.status === 401 && attempt < MAX_RETRIES - 1
Is401Retry(o, attempt) ==
    o.kind = "http" /\ o.status = 401 /\ attempt < Client_MAX_RETRIES - 1

\* the code of request() that runs once its fetch has ended in o
HandleOutcome(r, o) ==
    CASE o.kind = "timeout" -> CatchApiError(r, ApiError("NETWORK_ERROR", TRUE), 0)
      [] o.kind = "connfail" -> CatchOther(r, 0)
      [] OTHER ->
         IF Is401Retry(o, r.attempt)
         THEN NextAttempt([r EXCEPT !.clears = @ + 1], o.status)
         ELSE IF ~ResponseOk(o.status)
              THEN LET error == fromResponse(o.status)
                   IN IF error.retryPossible /\ r.attempt < Client_MAX_RETRIES - 1
                      THEN NextAttempt(r, o.status)
                      ELSE CatchApiError(r, error, o.status)
              ELSE IF o.status = 204
                   THEN Finish(r, Success)
                   ELSE IF o.json
                        THEN Finish(r, Success)
                        ELSE CatchOther(r, o.status)

-----------------------------------------------------------------------------
(* client/unopim-client.ts: postMultipart() *)

\* what fetch() of postMultipart can end in: it sets no AbortController, so
\* there is no timeout outcome
MultipartOutcomes ==
    {Http(200, TRUE), Http(200, FALSE), Http(401, TRUE), Http(401, FALSE),
     Http(500, TRUE), ConnFail}

\* `continue` of postMultipart: the next iteration up to its sleep, or the
\* throw after the loop
MultipartNextAttempt(r, cause) ==
    LET a == r.attempt + 1
    IN IF a < Client_MAX_RETRIES
       THEN [r EXCEPT !.pc = "sleep", !.attempt = a,
                      !.waits = Append(@, [delay |-> DelayAt(Client_RETRY_DELAYS, a),
                                           cause |-> cause])]
       ELSE Finish(r, RawError)

\* the catch of postMultipart: `continue` while attempts remain, else
\* `throw error`
MultipartCatch(r, cause) ==
    IF r.attempt < Client_MAX_RETRIES - 1
    THEN MultipartNextAttempt(r, cause)
    ELSE Finish(r, RawError)

IsMultipart401Retry_Never(o, attempt) == FALSE

\* response.status === 401 && attempt < MAX_RETRIES - 1 of postMultipart
IsMultipart401Retry(o, attempt) ==
    o.kind = "http" /\ o.status = 401 /\ attempt < Client_MAX_RETRIES - 1

\* the code of postMultipart() that runs once its fetch has ended in o:
\* response.json() is returned whatever the status
MultipartHandleOutcome(r, o) ==
    IF o.kind = "connfail"
    THEN MultipartCatch(r, 0)
    ELSE IF IsMultipart401Retry(o, r.attempt)
         THEN MultipartNextAttempt([r EXCEPT !.clears = @ + 1], o.status)
         ELSE IF o.json
              THEN Finish(r, Success)
              ELSE MultipartCatch(r, o.status)

\* an error thrown by getAccessToken() lands in the catch of the loop that
\* called it
CatchTokenError(r) ==
    IF r.op = "multipart" THEN MultipartCatch(r, 0) ELSE CatchOther(r, 0)

-----------------------------------------------------------------------------
(* tools/products.ts: family schema helpers *)

\* attribute codes of the catalogue
Codes == {"sku", "name", "price"}

\* keys of a flat input: attribute codes, a top-level key, a key no family has
FlatKeys == Codes \cup {"categories", "extra"}

Values == {"", "v"}
Locales == {"en_US", "da_DK"}
Channels == {"default"}

\* the catalogue's attributes by position
CodesByPosition == <<"sku", "name", "price">>

\* the attribute codes a family response lists: some of the catalogue's
\* attributes, each once, by position
CodeSeqs ==
    UNION {{[i \in 1..n |-> CodesByPosition[p[i]]] :
               p \in {q \in [1..n -> DOMAIN CodesByPosition] :
                         \A i \in 1..(n - 1) : q[i] < q[i + 1]}} :
           n \in 0..MaxAttrs}

\* flat inputs: an object with some of the keys
RawValues == UNION {[K -> Values] : K \in SUBSET FlatKeys}

\* an object with no key
EmptyObject == [k \in {} |-> ""]

\* Boolean(x) of a number the API sends
Boolean(x) == x # 0

\* truthiness of a property that may be missing or a string
Truthy(obj, key) == key \in DOMAIN obj /\ obj[key] # ""

\* attributes.push({...}) of getFamilyAttributeInfo
AttributeMetadata(attrResponse) ==
    [code |-> attrResponse.code,
     is_required |-> Boolean(attrResponse.is_required),
     value_per_locale |-> Boolean(attrResponse.value_per_locale),
     value_per_channel |-> Boolean(attrResponse.value_per_channel)]

IsCommon(a) == ~a.value_per_locale /\ ~a.value_per_channel
IsLocale(a) == a.value_per_locale /\ ~a.value_per_channel
IsChannel_AnyLocale(a) == a.value_per_channel
IsChannel(a) == ~a.value_per_locale /\ a.value_per_channel
IsChannelLocale(a) == a.value_per_locale /\ a.value_per_channel
IsRequired(a) == a.is_required

\* step 3 of getFamilyAttributeInfo and its return value
FamilyAttributeInfo(attributes) ==
    [attributes |-> attributes,
     requiredAttributes |-> SelectSeq(attributes, IsRequired),
     commonAttributes |-> SelectSeq(attributes, IsCommon),
     localeAttributes |-> SelectSeq(attributes, IsLocale),
     channelAttributes |-> SelectSeq(attributes, IsChannel),
     channelLocaleAttributes |-> SelectSeq(attributes, IsChannelLocale)]

\* familyInfo.attributes.find(a => a.code === key): the position of the first
\* match, 0 when there is none
find(attributes, key) ==
    LET I == {i \in DOMAIN attributes : attributes[i].code = key}
    IN IF I = {} THEN 0 ELSE CHOOSE i \in I : \A j \in I : i <= j

ScopeOf_LocaleFirst(familyInfo, key) ==
    LET i == find(familyInfo.attributes, key)
    IN IF i = 0 THEN "common"
       ELSE LET attr == familyInfo.attributes[i]
            IN IF ~attr.value_per_locale /\ ~attr.value_per_channel
               THEN "common"
               ELSE IF attr.value_per_locale
                    THEN "locale"
                    ELSE "channel"

\* the bag the loop of structureProductValues assigns a key to
ScopeOf(familyInfo, key) ==
    LET i == find(familyInfo.attributes, key)
    IN IF i = 0 THEN "common"
       ELSE LET attr == familyInfo.attributes[i]
            IN IF ~attr.value_per_locale /\ ~attr.value_per_channel
               THEN "common"
               ELSE IF attr.value_per_locale /\ ~attr.value_per_channel
                    THEN "locale"
                    ELSE IF ~attr.value_per_locale /\ attr.value_per_channel
                         THEN "channel"
                         ELSE "channel_locale"

\* the keys the loop of structureProductValues skips
TopLevelKeys == {"categories", "associations"}

Bag_DropsFalsy(rawValues, familyInfo, scope) ==
    [k \in {k \in DOMAIN rawValues \ TopLevelKeys :
               ScopeOf(familyInfo, k) = scope /\ rawValues[k] # ""} |->
        rawValues[k]]

\* the entries the loop puts in one bag
Bag(rawValues, familyInfo, scope) ==
    [k \in {k \in DOMAIN rawValues \ TopLevelKeys :
               ScopeOf(familyInfo, k) = scope} |-> rawValues[k]]

SkuForced_Never(rawValues) == FALSE

\* `if (rawValues.sku)` after the loop
SkuForced(rawValues) == Truthy(rawValues, "sku")

\* one object with the single key `key`, when the bag has entries
Keyed(key, bag) ==
    IF DOMAIN bag = {} THEN EmptyObject ELSE [k \in {key} |-> bag]

structureProductValues(rawValues, familyInfo, locale, channel) ==
    LET common == Bag(rawValues, familyInfo, "common")
    IN [common |-> IF SkuForced(rawValues)
                   THEN [k \in DOMAIN common \cup {"sku"} |->
                            IF k = "sku" THEN rawValues["sku"] ELSE common[k]]
                   ELSE common,
        locale_specific |->
            Keyed(locale, Bag(rawValues, familyInfo, "locale")),
        channel_specific |->
            Keyed(channel, Bag(rawValues, familyInfo, "channel")),
        channel_locale_specific |->
            Keyed(channel,
                  Keyed(locale, Bag(rawValues, familyInfo, "channel_locale"))),
        categories |-> IF Truthy(rawValues, "categories")
                       THEN rawValues["categories"]
                       ELSE ""]

\* obj[key] under `?.`: an object with no key when obj has no such key
At(obj, key) == IF key \in DOMAIN obj THEN obj[key] ELSE EmptyObject

\* hasValue of validateProductValues: the test on the place the attribute's
\* two booleans name
hasValue(values, attr, locale, channel) ==
    IF ~attr.value_per_locale /\ ~attr.value_per_channel
    THEN /\ attr.code \in DOMAIN values.common
         /\ values.common[attr.code] # ""
    ELSE IF attr.value_per_locale /\ ~attr.value_per_channel
         THEN attr.code \in DOMAIN At(values.locale_specific, locale)
         ELSE IF ~attr.value_per_locale /\ attr.value_per_channel
              THEN attr.code \in DOMAIN At(values.channel_specific, channel)
              ELSE attr.code \in
                      DOMAIN At(At(values.channel_locale_specific, channel),
                                locale)

ErrorField_LocaleFirst(attr, locale, channel) ==
    IF ~attr.value_per_locale /\ ~attr.value_per_channel
    THEN <<"common", attr.code>>
    ELSE IF attr.value_per_locale /\ ~attr.value_per_channel
         THEN <<"locale_specific", locale, attr.code>>
         ELSE IF ~attr.value_per_locale /\ attr.value_per_channel
              THEN <<"channel_specific", channel, attr.code>>
              ELSE <<"channel_locale_specific", locale, channel, attr.code>>

\* the field of the error pushed for a required attribute: the segments of
\* the dotted path
ErrorField(attr, locale, channel) ==
    IF ~attr.value_per_locale /\ ~attr.value_per_channel
    THEN <<"common", attr.code>>
    ELSE IF attr.value_per_locale /\ ~attr.value_per_channel
         THEN <<"locale_specific", locale, attr.code>>
         ELSE IF ~attr.value_per_locale /\ attr.value_per_channel
              THEN <<"channel_specific", channel, attr.code>>
              ELSE <<"channel_locale_specific", channel, locale, attr.code>>

\* the loop over familyInfo.requiredAttributes: the errors it pushes
RECURSIVE RequiredErrors(_, _, _, _)
RequiredErrors(values, required, locale, channel) ==
    IF required = <<>>
    THEN <<>>
    ELSE LET attr == Head(required)
             rest == RequiredErrors(values, Tail(required), locale, channel)
         IN IF hasValue(values, attr, locale, channel)
            THEN rest
            ELSE <<ErrorField(attr, locale, channel)>> \o rest

IsMisplaced_SkuToo(familyInfo, key) ==
    LET i == find(familyInfo.attributes, key)
    IN /\ i # 0
       /\ \/ familyInfo.attributes[i].value_per_locale
          \/ familyInfo.attributes[i].value_per_channel

IsMisplaced_LocaleOnly(familyInfo, key) ==
    LET i == find(familyInfo.attributes, key)
    IN /\ key # "sku"
       /\ i # 0
       /\ familyInfo.attributes[i].value_per_locale

IsMisplaced_UnknownToo(familyInfo, key) ==
    LET i == find(familyInfo.attributes, key)
    IN /\ key # "sku"
       /\ \/ i = 0
          \/ familyInfo.attributes[i].value_per_locale
          \/ familyInfo.attributes[i].value_per_channel

\* the loop over Object.entries(common): the test that pushes a warning
IsMisplaced(familyInfo, key) ==
    LET i == find(familyInfo.attributes, key)
    IN /\ key # "sku"
       /\ i # 0
       /\ \/ familyInfo.attributes[i].value_per_locale
          \/ familyInfo.attributes[i].value_per_channel

validateProductValues(values, familyInfo, locale, channel) ==
    LET errors == RequiredErrors(values, familyInfo.requiredAttributes,
                                 locale, channel)
    IN [valid |-> Len(errors) = 0,
        errors |-> errors,
        warnings |-> {<<"common", k>> :
                         k \in {k \in DOMAIN values.common :
                                   IsMisplaced(familyInfo, k)}}]

\* Trees a caller hands to validateProductValues: each key of TreeKeys sits
\* in one bag or in none, the scoped bags keyed by TreeLocale and TreeChannel.
TreeKeys == {"sku", "name"}
TreeLocale == "en_US"
TreeChannel == "default"
TreeScopes == {"none", "common", "locale", "channel", "channel_locale"}

TreeBag(scopeOf, valueOf, scope) ==
    [k \in {k \in TreeKeys : scopeOf[k] = scope} |-> valueOf[k]]

ValuesTree(scopeOf, valueOf) ==
    [common |-> TreeBag(scopeOf, valueOf, "common"),
     locale_specific |->
        Keyed(TreeLocale, TreeBag(scopeOf, valueOf, "locale")),
     channel_specific |->
        Keyed(TreeChannel, TreeBag(scopeOf, valueOf, "channel")),
     channel_locale_specific |->
        Keyed(TreeChannel,
              Keyed(TreeLocale, TreeBag(scopeOf, valueOf, "channel_locale"))),
     categories |-> ""]

ValuesTrees ==
    {ValuesTree(scopeOf, valueOf) :
        scopeOf \in [TreeKeys -> TreeScopes], valueOf \in [TreeKeys -> Values]}

\* input.values of smartCreateProduct: an object with some of these keys
InputKeys == {"name", "price"}
InputValues == UNION {[K -> Values] : K \in SUBSET InputKeys}

\* { sku: input.sku, ...input.values }
valuesWithSku(input) ==
    [k \in {"sku"} \cup DOMAIN input.values |->
        IF k \in DOMAIN input.values THEN input.values[k] ELSE input.sku]

\* what smartCreateProduct returns: success, validation.valid and the errors
\* (validation.errors, or those its catch block collects)
CreateResult(success, valid, errors) ==
    [success |-> success, valid |-> valid, errors |-> errors]

NoCreateResult == CreateResult(FALSE, FALSE, <<>>)

\* the errors the catch block of smartCreateProduct collects from the text
\* of the error
CatchErrors == {<<>>, <<<<"unknown">>>>}

MayCreate_IgnoresValidation(input, validation) == ~input.validate_only

\* the two early returns of smartCreateProduct passed: the POST is sent
MayCreate(input, validation) ==
    ~input.validate_only /\ validation.valid

NoInfo == FamilyAttributeInfo(<<>>)

NoTree == structureProductValues(EmptyObject, NoInfo, "en_US", "default")

IdleResolver ==
    [pc |-> "idle",
     \* getFamilyAttributeInfo(): the codes still to look up, the metadata
     \* collected, the number of lookups that failed, the error thrown
     attributeCodes |-> <<>>, attributes |-> <<>>, skipped |-> 0,
     error |-> NoResult,
     \* the attribute lookups sent, the error the family lookup threw
     lookups |-> 0, thrown |-> NoResult,
     familyInfo |-> NoInfo,
     \* structureProductValues(): its arguments and its result
     rawValues |-> EmptyObject, locale |-> "en_US", channel |-> "default",
     values |-> NoTree,
     \* validateProductValues(): its result
     validation |-> validateProductValues(NoTree, NoInfo, "en_US", "default"),
     \* smartCreateProduct(): input.validate_only, the product-creation
     \* POSTs sent, the result returned
     validate_only |-> FALSE, posts |-> 0, result |-> NoCreateResult]

-----------------------------------------------------------------------------
(* Actions *)

Init ==
    /\ tokenCache = Null
    /\ now = 0
    /\ issued = 0
    /\ task = [t \in Tasks |-> IdleTask]
    /\ rv = IdleResolver

\* A caller invokes request(): the first iteration runs up to its first await.
StartRequest(t) ==
    /\ task[t].pc \in {"idle", "done"}
    /\ task[t].calls < MaxCalls
    /\ task' = [task EXCEPT ![t] =
                  getAccessToken([@ EXCEPT !.calls = @ + 1, !.op = "request",
                                           !.attempt = 0,
                                           !.nreq = 0, !.responses = <<>>,
                                           !.waits = <<>>, !.clears = 0,
                                           !.tokReqs = 0, !.accessToken = 0,
                                           !.result = NoResult])]
    /\ UNCHANGED <<tokenCache, now, issued, rv>>

\* The backoff sleep of request() ends: getAccessToken() is called.
RequestSleepDone(t) ==
    /\ task[t].pc = "sleep"
    /\ task' = [task EXCEPT ![t] = getAccessToken(@)]
    /\ UNCHANGED <<tokenCache, now, issued, rv>>

\* The token endpoint answers 200 with a new token: cacheToken().
TokenSuccess(t) ==
    /\ task[t].pc = "tokWait"
    /\ issued < MaxIssued
    /\ \E e \in ExpiresInChoices :
          tokenCache' = cacheToken(TokenResponse(issued + 1, e))
    /\ issued' = issued + 1
    /\ task' = [task EXCEPT ![t] =
                  [@ EXCEPT !.pc = "gtReturn",
                            !.gtLog[Len(task[t].gtLog)].res = "ok"]]
    /\ UNCHANGED <<now, rv>>

\* The token request fails (a status that is not ok, or fetch throws).
TokenFailure(t) ==
    /\ task[t].pc = "tokWait"
    /\ \E s \in TokenStatuses :
          /\ ~ResponseOk(s)
          /\ LET r == [task[t] EXCEPT !.gtLog[Len(task[t].gtLog)].res = "fail"]
             IN task' = [task EXCEPT ![t] =
                  IF r.oattempt >= OAuth_MAX_RETRIES - 1
                  THEN IF r.grant = "refresh_token"
                       THEN RefreshFailed(r)
                       ELSE CatchTokenError(r)
                  ELSE [r EXCEPT !.pc = "tokSleep", !.oattempt = @ + 1]]
    /\ UNCHANGED <<tokenCache, now, issued, rv>>

\* The sleep between two token requests ends: the next one is sent.
TokenSleepDone(t) ==
    /\ task[t].pc = "tokSleep"
    /\ task' = [task EXCEPT ![t] =
                  IssueTokenRequest(@, task[t].grant, task[t].oattempt)]
    /\ UNCHANGED <<tokenCache, now, issued, rv>>

\* refreshToken() / acquireToken() has resolved:
\* `return this.tokenCache!.accessToken`, and request() sends its fetch.
TokenReturn(t) ==
    /\ task[t].pc = "gtReturn"
    /\ task' = [task EXCEPT ![t] =
                  IF tokenCache = Null
                  THEN CatchTokenError(@)
                  ELSE IssueFetch(@, tokenCache.accessToken)]
    /\ UNCHANGED <<tokenCache, now, issued, rv>>

\* The fetch of request() ends.
ResourceResponse(t) ==
    /\ task[t].pc = "fetch"
    /\ task[t].op = "request"
    /\ \E o \in ResourceOutcomes :
          LET r == [task[t] EXCEPT !.responses = Append(@, o)]
          IN /\ task' = [task EXCEPT ![t] = HandleOutcome(r, o)]
             /\ tokenCache' = IF Is401Retry(o, r.attempt)
                              THEN clearCache
                              ELSE tokenCache
    /\ UNCHANGED <<now, issued, rv>>

\* Time passes.
Tick ==
    /\ now < MaxTicks * ClockStep
    /\ now' = now + ClockStep
    /\ UNCHANGED <<tokenCache, issued, task, rv>>

Step(t) ==
    \/ StartRequest(t)
    \/ RequestSleepDone(t)
    \/ TokenSuccess(t)
    \/ TokenFailure(t)
    \/ TokenSleepDone(t)
    \/ TokenReturn(t)
    \/ ResourceResponse(t)

Next == Tick \/ \E t \in SeqTasks : Step(t)

Spec == Init /\ [][Next]_vars

\* The answers of the resource server in SpecLive: a success, a 401, a status
\* that is retried, one that is not, a timeout and a rejected fetch.
LiveOutcomes ==
    {Http(200, TRUE), Http(401, TRUE), Http(404, TRUE), Http(500, TRUE),
     Timeout, ConnFail}

\* The fetch of request() ends, with one of LiveOutcomes.
LiveResourceResponse(t) ==
    /\ task[t].pc = "fetch"
    /\ task[t].op = "request"
    /\ \E o \in LiveOutcomes :
          LET r == [task[t] EXCEPT !.responses = Append(@, o)]
          IN /\ task' = [task EXCEPT ![t] = HandleOutcome(r, o)]
             /\ tokenCache' = IF Is401Retry(o, r.attempt)
                              THEN clearCache
                              ELSE tokenCache
    /\ UNCHANGED <<now, issued, rv>>

\* What a call under way does next: each sleep ends, and each fetch is
\* answered, fails or is aborted by its timeout.
Progress(t) ==
    \/ RequestSleepDone(t)
    \/ TokenSuccess(t)
    \/ TokenFailure(t)
    \/ TokenSleepDone(t)
    \/ TokenReturn(t)
    \/ LiveResourceResponse(t)

NextLive == Tick \/ \E t \in SeqTasks : StartRequest(t) \/ Progress(t)

\* One task calling request(), every network call and every sleep of a call
\* ending eventually
SpecLive ==
    Init /\ [][NextLive]_vars /\ \A t \in SeqTasks : WF_vars(Progress(t))

\* The answers of the resource server while two tasks run interleaved; the
\* token endpoint answers every request it is sent.
ConcOutcomes == {Http(200, TRUE), Http(401, TRUE)}

\* A caller invokes request() while another call may be under way.
ConcStartRequest(t) ==
    /\ task[t].calls < MaxConcCalls
    /\ StartRequest(t)

\* The fetch of request() ends, with one of ConcOutcomes.
ConcResourceResponse(t) ==
    /\ task[t].pc = "fetch"
    /\ task[t].op = "request"
    /\ \E o \in ConcOutcomes :
          LET r == [task[t] EXCEPT !.responses = Append(@, o)]
          IN /\ task' = [task EXCEPT ![t] = HandleOutcome(r, o)]
             /\ tokenCache' = IF Is401Retry(o, r.attempt)
                              THEN clearCache
                              ELSE tokenCache
    /\ UNCHANGED <<now, issued, rv>>

ConcStep(t) ==
    \/ ConcStartRequest(t)
    \/ RequestSleepDone(t)
    \/ TokenSuccess(t)
    \/ TokenReturn(t)
    \/ ConcResourceResponse(t)

\* The event loop runs one continuation of either task at a time.
NextConc == Tick \/ \E t \in Tasks : ConcStep(t)

SpecConc == Init /\ [][NextConc]_vars

\* A caller invokes postMultipart(): the first iteration runs up to its first
\* await.
StartMultipart(t) ==
    /\ task[t].pc \in {"idle", "done"}
    /\ task[t].calls < MaxCalls
    /\ task' = [task EXCEPT ![t] =
                  getAccessToken([@ EXCEPT !.calls = @ + 1, !.op = "multipart",
                                           !.attempt = 0,
                                           !.nreq = 0, !.responses = <<>>,
                                           !.waits = <<>>, !.clears = 0,
                                           !.tokReqs = 0, !.accessToken = 0,
                                           !.result = NoResult])]
    /\ UNCHANGED <<tokenCache, now, issued, rv>>

\* The fetch of postMultipart() ends.
MultipartResponse(t) ==
    /\ task[t].pc = "fetch"
    /\ task[t].op = "multipart"
    /\ \E o \in MultipartOutcomes :
          LET r == [task[t] EXCEPT !.responses = Append(@, o)]
          IN /\ task' = [task EXCEPT ![t] = MultipartHandleOutcome(r, o)]
             /\ tokenCache' = IF IsMultipart401Retry(o, r.attempt)
                              THEN clearCache
                              ELSE tokenCache
    /\ UNCHANGED <<now, issued, rv>>

MultipartStep(t) ==
    \/ StartMultipart(t)
    \/ RequestSleepDone(t)
    \/ TokenSuccess(t)
    \/ TokenFailure(t)
    \/ TokenSleepDone(t)
    \/ TokenReturn(t)
    \/ MultipartResponse(t)

NextMultipart == Tick \/ \E t \in SeqTasks : MultipartStep(t)

SpecMultipart == Init /\ [][NextMultipart]_vars

\* A caller invokes getFamilyAttributeInfo(): the family lookup is sent.
GetFamilyAttributeInfo ==
    /\ rv.pc = "idle"
    /\ rv' = [rv EXCEPT !.pc = "family"]
    /\ UNCHANGED <<tokenCache, now, issued, task>>

\* the loop over attributeCodes up to its next await, or the return
LookupNext(r) ==
    IF r.attributeCodes = <<>>
    THEN [r EXCEPT !.pc = "ready",
                   !.familyInfo = FamilyAttributeInfo(r.attributes)]
    ELSE [r EXCEPT !.pc = "attribute", !.lookups = @ + 1]

\* the errors client.get throws
ClientErrors ==
    {fromResponse(401), fromResponse(404), fromResponse(500), networkError}

\* the family lookup has no try/catch around it
FamilyLookupFailed(r, error) ==
    [r EXCEPT !.pc = "failed", !.thrown = error, !.error = error]

AttributeLookupFailed_Fatal(r, error) ==
    [r EXCEPT !.pc = "failed", !.thrown = error, !.error = error]

\* `catch { }` around the attribute lookup, and the loop goes on
AttributeLookupFailed(r, error) ==
    LookupNext([r EXCEPT !.skipped = @ + 1, !.attributeCodes = Tail(@)])

\* client.get of the family answers with its attribute codes.
FamilyResponse ==
    /\ rv.pc = "family"
    /\ \E codes \in CodeSeqs :
          rv' = LookupNext([rv EXCEPT !.attributeCodes = codes])
    /\ UNCHANGED <<tokenCache, now, issued, task>>

\* client.get of the family throws: the error leaves getFamilyAttributeInfo.
FamilyFailure ==
    /\ rv.pc = "family"
    /\ \E error \in ClientErrors : rv' = FamilyLookupFailed(rv, error)
    /\ UNCHANGED <<tokenCache, now, issued, task>>

\* client.get of the attribute answers with its metadata.
AttributeResponse ==
    /\ rv.pc = "attribute"
    /\ \E req, loc, chan \in {0, 1} :
          rv' = LookupNext(
                  [rv EXCEPT !.attributes =
                                Append(@, AttributeMetadata(
                                   [code |-> Head(rv.attributeCodes),
                                    is_required |-> req,
                                    value_per_locale |-> loc,
                                    value_per_channel |-> chan])),
                             !.attributeCodes = Tail(@)])
    /\ UNCHANGED <<tokenCache, now, issued, task>>

\* client.get of the attribute throws: the attribute is skipped.
AttributeFailure ==
    /\ rv.pc = "attribute"
    /\ \E error \in ClientErrors : rv' = AttributeLookupFailed(rv, error)
    /\ UNCHANGED <<tokenCache, now, issued, task>>

\* The caller structures a flat input with the family info it got and
\* validates the result.
StructureValues ==
    /\ rv.pc = "ready"
    /\ \E rawValues \in RawValues, locale \in Locales, channel \in Channels :
          LET structuredValues ==
                 structureProductValues(rawValues, rv.familyInfo,
                                        locale, channel)
          IN rv' = [rv EXCEPT !.pc = "structured",
                              !.rawValues = rawValues,
                              !.locale = locale,
                              !.channel = channel,
                              !.values = structuredValues,
                              !.validation =
                                 validateProductValues(structuredValues,
                                                       rv.familyInfo,
                                                       locale, channel)]
    /\ UNCHANGED <<tokenCache, now, issued, task>>

\* A caller validates a tree of its own with the family info it got.
ValidateValues ==
    /\ rv.pc = "ready"
    /\ \E values \in ValuesTrees, locale \in Locales, channel \in Channels :
          rv' = [rv EXCEPT !.pc = "validated",
                           !.locale = locale,
                           !.channel = channel,
                           !.values = values,
                           !.validation =
                              validateProductValues(values, rv.familyInfo,
                                                    locale, channel)]
    /\ UNCHANGED <<tokenCache, now, issued, task>>

NextValidate ==
    \/ GetFamilyAttributeInfo
    \/ FamilyResponse
    \/ FamilyFailure
    \/ AttributeResponse
    \/ AttributeFailure
    \/ ValidateValues

SpecValidate == Init /\ [][NextValidate]_vars

\* smartCreateProduct() after getFamilyAttributeInfo() has returned: it
\* structures and validates the input, then returns or sends the POST.
SmartCreateValidate ==
    /\ rv.pc = "ready"
    /\ \E sku \in Values, values \in InputValues, locale \in Locales,
          channel \in Channels, validate_only \in BOOLEAN :
          LET input == [sku |-> sku, values |-> values,
                        validate_only |-> validate_only]
              structuredValues ==
                 structureProductValues(valuesWithSku(input), rv.familyInfo,
                                        locale, channel)
              validation ==
                 validateProductValues(structuredValues, rv.familyInfo,
                                       locale, channel)
              r == [rv EXCEPT !.rawValues = valuesWithSku(input),
                              !.locale = locale,
                              !.channel = channel,
                              !.validate_only = validate_only,
                              !.values = structuredValues,
                              !.validation = validation]
          IN rv' = IF MayCreate(input, validation)
                   THEN [r EXCEPT !.pc = "post", !.posts = @ + 1,
                                  !.values.common =
                                     [k \in DOMAIN structuredValues.common
                                               \cup {"sku"} |->
                                         IF k = "sku" THEN sku
                                         ELSE structuredValues.common[k]]]
                   ELSE [r EXCEPT !.pc = "returned",
                                  !.result =
                                     CreateResult(validation.valid,
                                                  validation.valid,
                                                  validation.errors)]
    /\ UNCHANGED <<tokenCache, now, issued, task>>

\* client.post answers: smartCreateProduct returns success.
PostResponse ==
    /\ rv.pc = "post"
    /\ rv' = [rv EXCEPT !.pc = "returned",
                        !.result = CreateResult(TRUE, rv.validation.valid,
                                                rv.validation.errors)]
    /\ UNCHANGED <<tokenCache, now, issued, task>>

\* client.post throws: the catch block asks for the family info again.
PostFailure ==
    /\ rv.pc = "post"
    /\ \E error \in ClientErrors :
          rv' = [rv EXCEPT !.pc = "failed", !.thrown = error, !.error = error]
    /\ UNCHANGED <<tokenCache, now, issued, task>>

\* The family info the catch block asked for has arrived or failed:
\* smartCreateProduct returns the errors it collected.
SmartCreateCatch ==
    /\ rv.pc = "failed"
    /\ \E errors \in CatchErrors :
          rv' = [rv EXCEPT !.pc = "returned",
                           !.result = CreateResult(FALSE, FALSE, errors)]
    /\ UNCHANGED <<tokenCache, now, issued, task>>

NextSmartCreate ==
    \/ GetFamilyAttributeInfo
    \/ FamilyResponse
    \/ FamilyFailure
    \/ AttributeResponse
    \/ AttributeFailure
    \/ SmartCreateValidate
    \/ PostResponse
    \/ PostFailure
    \/ SmartCreateCatch

SpecSmartCreate == Init /\ [][NextSmartCreate]_vars

NextResolver ==
    \/ GetFamilyAttributeInfo
    \/ FamilyResponse
    \/ FamilyFailure
    \/ AttributeResponse
    \/ AttributeFailure
    \/ StructureValues

SpecResolver == Init /\ [][NextResolver]_vars

-----------------------------------------------------------------------------
(* Properties *)

Done(t) == task[t].pc = "done"

Is401(o) == o.kind = "http" /\ o.status = 401

\* the failures request() is to absorb: 5xx, 429, timeout, connection failure
RetryableFailure(o) ==
    \/ o.kind \in {"timeout", "connfail"}
    \/ o.kind = "http" /\ (o.status = 429 \/ o.status >= 500)

Count401(responses) ==
    Cardinality({i \in DOMAIN responses : Is401(responses[i])})

\* the positions of the token requests of grant g in a getAccessToken() log
GrantIdx(log, g) == {i \in DOMAIN log : log[i].grant = g}

C2_One401ThenSuccess ==
    \A t \in Tasks :
        (Done(t) /\ task[t].responses = <<Http(401, TRUE), Http(200, TRUE)>>)
        => (task[t].result = Success /\ task[t].clears = 1)

C2_Witness ==
    \E t \in Tasks :
        /\ Done(t)
        /\ task[t].responses = <<Http(401, TRUE), Http(200, TRUE)>>
        /\ task[t].clears = 1
        /\ task[t].result = Success

\* C3: every 401 answer of a call is followed by an invalidation of the cache
\* before the call ends; a call whose last answer is a 401 ends with the
\* cache empty.
C3_Every401Invalidates ==
    \A t \in Tasks :
        Done(t) =>
            /\ task[t].clears = Count401(task[t].responses)
            /\ (task[t].responses # <<>> /\ Is401(task[t].responses[Len(task[t].responses)]))
               => tokenCache = Null

\* C4 as stated: the retry that follows a 401 waits no backoff delay.
C4_NoBackoffAfter401 ==
    \A t \in Tasks :
        \A i \in DOMAIN task[t].waits :
            task[t].waits[i].cause = 401 => task[t].waits[i].delay = 0

\* C4 as amended: on a 401 with attempts left the cache is invalidated and the
\* next attempt starts from getAccessToken(), after the same scheduled delay
\* as any other retry: 1s before the 2nd attempt, 3s before the 3rd.
C4_BackoffAlsoAfter401 ==
    \A t \in Tasks :
        LET r == task[t] IN
        /\ \A i \in DOMAIN r.waits :
              /\ i <= 2
              /\ r.waits[i].delay = <<1000, 3000>>[i]
        /\ (r.pc = "sleep" /\ r.waits[Len(r.waits)].cause = 401)
           => (tokenCache = Null /\ r.clears >= 1)

C4_Witness ==
    \E t \in Tasks :
        /\ task[t].pc = "sleep"
        /\ Len(task[t].waits) = 2
        /\ task[t].waits[1] = [delay |-> 1000, cause |-> 401]
        /\ task[t].waits[2] = [delay |-> 3000, cause |-> 401]

\* C5: a getAccessToken() call that finds a token more than the refresh
\* buffer away from expiry returns that token and sends no token request;
\* two such calls in a row return the same token.
C5_ValidTokenNoNetwork ==
    \A t \in Tasks :
        LET r == task[t] IN
        r.gtState = "Valid" =>
            /\ r.gtLog = <<>>
            /\ r.gtRet = r.gtTok
            /\ r.gtRet # 0
            /\ (r.prevState = "Valid" => r.prevRet = r.gtRet)

C5_Witness ==
    \E t \in Tasks :
        /\ task[t].gtState = "Valid"
        /\ task[t].prevState = "Valid"
        /\ task[t].gtRet = task[t].prevRet
        /\ task[t].gtRet # 0
        /\ task[t].gtLog = <<>>

\* C6: a getAccessToken() call that finds the token within the refresh buffer
\* before expiry sends a refresh-grant request and returns a newly issued
\* token, not the cached one.
C6_NearExpiryRefreshes ==
    \A t \in Tasks :
        LET r == task[t] IN
        (r.gtState = "NearExpiry" /\ r.gtRet # 0) =>
            /\ r.gtLog # <<>>
            /\ r.gtLog[1].grant = "refresh_token"
            /\ r.gtRet # r.gtTok

\* C7: a getAccessToken() call that finds an expired token, and whose token
\* request is answered successfully, sends exactly one token request and
\* returns the new token, which is the one in the cache.
C7_ExpiredOneTokenRequest ==
    \A t \in Tasks :
        LET r == task[t] IN
        (r.gtState = "Expired" /\ r.gtLog # <<>> /\ r.gtLog[1].res = "ok") =>
            /\ Len(r.gtLog) = 1
            /\ r.pc \in {"gtReturn", "fetch"} => tokenCache.accessToken # r.gtTok
            /\ r.pc = "fetch" => r.gtRet = tokenCache.accessToken
            /\ r.gtRet # 0 => r.gtRet # r.gtTok

C7_Witness ==
    \E t \in Tasks :
        /\ task[t].gtState = "Expired"
        /\ task[t].pc = "fetch"
        /\ Len(task[t].gtLog) = 1
        /\ task[t].gtLog[1].res = "ok"
        /\ task[t].gtRet = tokenCache.accessToken
        /\ task[t].gtRet # task[t].gtTok

\* C8: when a getAccessToken() call refreshes and the refresh fails, the same
\* call goes on to a password-grant acquisition; a password-grant request is
\* sent only after three failed refresh requests; when the acquisition
\* succeeds the call returns the acquired token.
C8_RefreshFallsBackToAcquire ==
    \A t \in Tasks :
        LET r == task[t]
            log == r.gtLog
        IN (log # <<>> /\ log[1].grant = "refresh_token") =>
            /\ \A i \in DOMAIN log :
                  log[i].grant = "password" =>
                      /\ i > 3
                      /\ \A j \in 1..3 :
                            log[j].grant = "refresh_token" /\ log[j].res = "fail"
            /\ (Len(log) >= 3 /\ \A j \in 1..3 : log[j].res = "fail")
               => (Len(log) >= 4 /\ log[4].grant = "password")
            /\ (r.pc = "fetch" /\ log[Len(log)].grant = "password")
               => /\ log[Len(log)].res = "ok"
                  /\ r.gtRet = tokenCache.accessToken
                  /\ r.gtRet # r.gtTok

C8_Witness ==
    \E t \in Tasks :
        /\ task[t].pc = "fetch"
        /\ Len(task[t].gtLog) = 4
        /\ task[t].gtLog[1].grant = "refresh_token"
        /\ task[t].gtLog[3].res = "fail"
        /\ task[t].gtLog[4] = [grant |-> "password", wait |-> 0, res |-> "ok"]
        /\ task[t].gtRet = tokenCache.accessToken

\* C9: one acquireToken() and one refreshToken() each send at most 3 token
\* requests, the 1st without wait, the 2nd after 1s, the 3rd after 3s; each
\* failure uses up one attempt and nothing is sent after a success.
C9_TokenRetrySchedule ==
    \A t \in Tasks :
        LET log == task[t].gtLog IN
        \A g \in {"password", "refresh_token"} :
            /\ Cardinality(GrantIdx(log, g)) <= 3
            /\ \A i \in GrantIdx(log, g) :
                  LET k == Cardinality({j \in GrantIdx(log, g) : j <= i}) IN
                  /\ k <= 3
                  /\ log[i].wait = <<0, 1000, 3000>>[k]
                  /\ i < Len(log) => log[i].res = "fail"

C9_Witness ==
    \E t \in Tasks :
        /\ Len(task[t].gtLog) = 6
        /\ task[t].gtLog[3] = [grant |-> "refresh_token", wait |-> 3000, res |-> "fail"]
        /\ task[t].gtLog[5] = [grant |-> "password", wait |-> 1000, res |-> "fail"]
        /\ task[t].gtLog[6] = [grant |-> "password", wait |-> 3000, res |-> "ok"]

\* C10: a call that never gets a token, because each acquisition fails on its
\* 3rd attempt, fails with AUTH_FAILED, and an acquisition sends no more than
\* 3 token requests.
C10_AcquisitionFailureIsAuthFailed ==
    \A t \in Tasks :
        (Done(t) /\ task[t].nreq = 0) =>
            /\ ~task[t].result.ok
            /\ task[t].result.code = "AUTH_FAILED"
            /\ Cardinality(GrantIdx(task[t].gtLog, "password")) <= 3

\* C11: clearCache() leaves the cache empty; the getAccessToken() call that
\* follows sends password-grant requests only and does not return the token
\* that was cached before; the cache is emptied only by a step of request()
\* that handles a 401 answer.
C11_AfterInvalidate ==
    \A t \in Tasks :
        LET r == task[t]
            n == Len(r.responses)
        IN (n >= 1 /\ Is401(r.responses[n]) /\ r.pc # "done") =>
            /\ r.clears >= 1
            /\ r.pc = "sleep" => tokenCache = Null
            /\ r.pc # "sleep" =>
                  /\ r.gtState = "Empty"
                  /\ r.gtLog # <<>>
                  /\ \A i \in DOMAIN r.gtLog : r.gtLog[i].grant = "password"
                  /\ r.gtRet # 0 => r.gtRet # r.prevRet

C11_InvalidateOnlyOn401 ==
    (tokenCache # Null /\ tokenCache' = Null) =>
        \E t \in Tasks :
            /\ task[t].pc = "fetch"
            /\ task'[t].clears = task[t].clears + 1
            /\ Is401(task'[t].responses[Len(task'[t].responses)])

C11_InvalidateForcesEmpty ==
    [][C11_InvalidateOnlyOn401 /\ C11_AfterInvalidate']_vars

C11_Witness ==
    \E t \in Tasks :
        /\ task[t].pc = "fetch"
        /\ task[t].responses # <<>>
        /\ Is401(task[t].responses[Len(task[t].responses)])
        /\ task[t].prevState = "Valid"
        /\ task[t].gtState = "Empty"
        /\ task[t].gtRet # task[t].prevRet
        /\ task[t].gtLog = <<[grant |-> "password", wait |-> 0, res |-> "ok"]>>

C13_RetryFlagFixedByCode ==
    \A t \in Tasks :
        (Done(t) /\ ~task[t].result.ok) =>
            /\ task[t].result.code \in {"AUTH_FAILED", "RATE_LIMITED",
                                        "SERVER_ERROR", "NETWORK_ERROR"}
               => task[t].result.retryPossible
            /\ task[t].result.code \in {"NOT_FOUND", "VALIDATION_ERROR",
                                        "DUPLICATE_CODE", "DEPENDENCY_MISSING"}
               => ~task[t].result.retryPossible

ErrorCodes ==
    {"AUTH_FAILED", "TOKEN_EXPIRED", "NOT_FOUND", "VALIDATION_ERROR",
     "DUPLICATE_CODE", "DEPENDENCY_MISSING", "RATE_LIMITED", "SERVER_ERROR",
     "NETWORK_ERROR"}

\* C14: a call that fails ends with one UnoPimApiError whose code is one of
\* the nine error codes, whatever made it fail.
C14_FailureIsClassified ==
    \A t \in Tasks :
        Done(t) =>
            \/ task[t].result = Success
            \/ /\ ~task[t].result.ok
               /\ task[t].result.code \in ErrorCodes

C14_Witness ==
    \E t \in Tasks :
        /\ Done(t)
        /\ task[t].responses = <<Timeout, ConnFail, Http(200, FALSE)>>
        /\ task[t].result = ApiError("NETWORK_ERROR", TRUE)

C16_EachEmptyObserverAcquires ==
    \A t \in Tasks :
        (task[t].calls > 0 /\ task[t].gtState = "Empty") =>
            /\ task[t].gtLog # <<>>
            /\ \A i \in DOMAIN task[t].gtLog : task[t].gtLog[i].grant = "password"

C16_Witness ==
    /\ tokenCache = Null
    /\ \A t \in Tasks :
          /\ task[t].pc = "tokWait"
          /\ task[t].grant = "password"
          /\ task[t].gtState = "Empty"
          /\ task[t].gtLog = <<[grant |-> "password", wait |-> 0, res |-> "pending"]>>

\* C17: the cache is empty or holds the access token, the refresh token and
\* the expiry of one token response; every step that changes it either
\* empties it or replaces all three fields by those of the response just
\* received.
C17_CacheOfOneResponse ==
    \/ tokenCache = Null
    \/ /\ tokenCache.accessToken \in 1..issued
       /\ tokenCache.refreshToken = tokenCache.accessToken
       /\ \E e \in ExpiresInChoices, k \in 0..MaxTicks :
             tokenCache.expiresAt = (k * ClockStep) + (e * 1000)

C17_CacheReplacedWhole ==
    tokenCache' # tokenCache =>
        \/ tokenCache' = Null
        \/ /\ issued' = issued + 1
           /\ \E e \in ExpiresInChoices :
                 tokenCache' = [accessToken |-> issued',
                                refreshToken |-> issued',
                                expiresAt |-> now + (e * 1000)]

C17_SingleTokenNeverPartial ==
    [][C17_CacheReplacedWhole /\ C17_CacheOfOneResponse']_vars

\* a refresh of one task overwrites the token another task acquired after an
\* invalidation
C17_Witness ==
    /\ tokenCache # Null
    /\ tokenCache.accessToken = 2
    /\ \E t, u \in Tasks :
          /\ t # u
          /\ task[t].clears >= 1
          /\ task[u].pc = "gtReturn"
          /\ task[u].grant = "refresh_token"

\* the members of a sequence
Range(seq) == {seq[i] : i \in DOMAIN seq}

\* the scope subsets of a FamilyAttributeInfo that hold attribute a
SubsetsHolding(info, a) ==
    {n \in {"common", "locale", "channel", "channel_locale"} :
        a \in Range(CASE n = "common" -> info.commonAttributes
                      [] n = "locale" -> info.localeAttributes
                      [] n = "channel" -> info.channelAttributes
                      [] OTHER -> info.channelLocaleAttributes)}

\* the scope the two booleans of an attribute name
ScopeByFlags(a) ==
    CASE ~a.value_per_locale /\ ~a.value_per_channel -> "common"
      [] a.value_per_locale /\ ~a.value_per_channel -> "locale"
      [] ~a.value_per_locale /\ a.value_per_channel -> "channel"
      [] OTHER -> "channel_locale"

\* C18: in the FamilyAttributeInfo getFamilyAttributeInfo returns, every
\* resolved attribute is in exactly one of the four scope subsets, the one
\* its (value_per_locale, value_per_channel) names, and the subsets hold
\* nothing else.
C18_ScopeSubsetsPartition ==
    rv.pc \in {"ready", "structured"} =>
        LET info == rv.familyInfo IN
        /\ \A i \in DOMAIN info.attributes :
              SubsetsHolding(info, info.attributes[i]) =
                 {ScopeByFlags(info.attributes[i])}
        /\ Len(info.commonAttributes) + Len(info.localeAttributes)
              + Len(info.channelAttributes) + Len(info.channelLocaleAttributes)
           = Len(info.attributes)
        /\ Range(info.commonAttributes) \cup Range(info.localeAttributes)
              \cup Range(info.channelAttributes)
              \cup Range(info.channelLocaleAttributes)
           = Range(info.attributes)

C18_Witness ==
    /\ rv.pc = "ready"
    /\ Len(rv.familyInfo.attributes) = 2
    /\ Len(rv.familyInfo.channelLocaleAttributes) = 1
    /\ Len(rv.familyInfo.channelAttributes) = 1

\* the places of a structured tree that hold key k
Places(tree, k) ==
    {<<"common">> : x \in {y \in {1} : k \in DOMAIN tree.common}}
    \cup {<<"locale_specific", l>> :
             l \in {l \in DOMAIN tree.locale_specific :
                       k \in DOMAIN tree.locale_specific[l]}}
    \cup {<<"channel_specific", c>> :
             c \in {c \in DOMAIN tree.channel_specific :
                       k \in DOMAIN tree.channel_specific[c]}}
    \cup UNION {{<<"channel_locale_specific", c, l>> :
                    l \in {l \in DOMAIN tree.channel_locale_specific[c] :
                              k \in DOMAIN tree.channel_locale_specific[c][l]}} :
                c \in DOMAIN tree.channel_locale_specific}

\* the value a structured tree holds for key k at a place
ValueAt(tree, place, k) ==
    CASE place[1] = "common" -> tree.common[k]
      [] place[1] = "locale_specific" -> tree.locale_specific[place[2]][k]
      [] place[1] = "channel_specific" -> tree.channel_specific[place[2]][k]
      [] OTHER -> tree.channel_locale_specific[place[2]][place[3]][k]

\* the place the two booleans of an attribute name, for a locale and channel
PlaceByFlags(a, locale, channel) ==
    CASE ~a.value_per_locale /\ ~a.value_per_channel -> <<"common">>
      [] a.value_per_locale /\ ~a.value_per_channel ->
            <<"locale_specific", locale>>
      [] ~a.value_per_locale /\ a.value_per_channel ->
            <<"channel_specific", channel>>
      [] OTHER -> <<"channel_locale_specific", channel, locale>>

\* the keys of the flat input that are attributes of the family, sku apart
KnownKeys ==
    {k \in DOMAIN rv.rawValues \ (TopLevelKeys \cup {"sku"}) :
        find(rv.familyInfo.attributes, k) # 0}

\* C19: structureProductValues puts the value of every known attribute
\* other than sku at exactly one place of the tree, the one its two
\* booleans name for the given locale and channel.
C19_KnownValueInExactlyOneBag ==
    rv.pc = "structured" =>
        \A k \in KnownKeys :
            LET a == rv.familyInfo.attributes[find(rv.familyInfo.attributes, k)]
                place == PlaceByFlags(a, rv.locale, rv.channel)
            IN /\ Places(rv.values, k) = {place}
               /\ ValueAt(rv.values, place, k) = rv.rawValues[k]

C19_Witness ==
    /\ rv.pc = "structured"
    /\ rv.locale = "en_US"
    /\ rv.channel = "default"
    /\ "name" \in KnownKeys
    /\ \E i \in DOMAIN rv.familyInfo.attributes :
          /\ rv.familyInfo.attributes[i].code = "name"
          /\ rv.familyInfo.attributes[i].value_per_locale
          /\ rv.familyInfo.attributes[i].value_per_channel
    /\ rv.rawValues["name"] = "v"
    /\ Places(rv.values, "name") = {<<"channel_locale_specific", "default", "en_US">>}
    /\ rv.values.channel_locale_specific["default"]["en_US"]["name"] = "v"

\* C20: a flat input with a sku value gets that value in the common bag,
\* whether familyInfo has sku as common, locale, channel or channel-locale
\* specific, or does not have it.
C20_SkuAlwaysInCommon ==
    (rv.pc = "structured" /\ Truthy(rv.rawValues, "sku")) =>
        /\ "sku" \in DOMAIN rv.values.common
        /\ rv.values.common["sku"] = rv.rawValues["sku"]

C20_Witness ==
    /\ rv.pc = "structured"
    /\ Truthy(rv.rawValues, "sku")
    /\ \E i \in DOMAIN rv.familyInfo.attributes :
          /\ rv.familyInfo.attributes[i].code = "sku"
          /\ rv.familyInfo.attributes[i].value_per_locale
          /\ rv.familyInfo.attributes[i].value_per_channel
    /\ rv.values.common["sku"] = "v"

\* C21: structureProductValues never puts the key sku in the locale, the
\* channel or the channel-locale bag, whatever familyInfo says of sku.
C21_SkuNeverInScopedBag ==
    rv.pc = "structured" => Places(rv.values, "sku") \subseteq {<<"common">>}

\* the keys of the flat input that no attribute of the family has
UnknownKeys ==
    {k \in DOMAIN rv.rawValues \ TopLevelKeys :
        find(rv.familyInfo.attributes, k) = 0}

\* the flat input without key k
Without(obj, k) == [j \in DOMAIN obj \ {k} |-> obj[j]]

\* C22: a key no attribute of the family has lands in the common bag only;
\* validateProductValues has no error and no warning for it, and its result
\* is the one it gives for the input without that key.
C22_UnknownKeysPassThrough ==
    rv.pc = "structured" =>
        \A k \in UnknownKeys :
            /\ Places(rv.values, k) = {<<"common">>}
            /\ rv.values.common[k] = rv.rawValues[k]
            /\ \A i \in DOMAIN rv.validation.errors :
                  rv.validation.errors[i][Len(rv.validation.errors[i])] # k
            /\ <<"common", k>> \notin rv.validation.warnings
            /\ rv.validation =
                  validateProductValues(
                     structureProductValues(Without(rv.rawValues, k),
                                            rv.familyInfo, rv.locale, rv.channel),
                     rv.familyInfo, rv.locale, rv.channel)

C22_Witness ==
    /\ rv.pc = "structured"
    /\ "extra" \in UnknownKeys
    /\ "price" \in UnknownKeys
    /\ rv.skipped = 1
    /\ ~rv.validation.valid
    /\ rv.values.common["extra"] = "v"

\* the flattening inverse of structureProductValues: the values the common
\* bag and the bags at a locale and channel hold for key k
Flattened(tree, locale, channel, k) ==
    {ValueAt(tree, place, k) :
        place \in Places(tree, k) \cap
                  {<<"common">>, <<"locale_specific", locale>>,
                   <<"channel_specific", channel>>,
                   <<"channel_locale_specific", channel, locale>>}}

\* C25: for every key of the flat input that is an attribute of the family,
\* flattening the structured tree at the same locale and channel gives the
\* value of the flat input and no other; it gives no value for an attribute
\* the flat input does not have.
C25_FlattenRecoversKnownValues ==
    rv.pc = "structured" =>
        \A i \in DOMAIN rv.familyInfo.attributes :
            LET k == rv.familyInfo.attributes[i].code
                flat == Flattened(rv.values, rv.locale, rv.channel, k)
            IN IF k \in DOMAIN rv.rawValues
               THEN flat = {rv.rawValues[k]}
               ELSE flat = {}

C25_Witness ==
    /\ rv.pc = "structured"
    /\ rv.locale = "da_DK"
    /\ Len(rv.familyInfo.localeAttributes) = 1
    /\ Len(rv.familyInfo.channelLocaleAttributes) = 1
    /\ \A i \in DOMAIN rv.familyInfo.attributes :
          /\ rv.familyInfo.attributes[i].code \in DOMAIN rv.rawValues
          /\ Flattened(rv.values, "da_DK", "default",
                       rv.familyInfo.attributes[i].code) \in {{""}, {"v"}}
    /\ \E i \in DOMAIN rv.familyInfo.attributes :
          rv.rawValues[rv.familyInfo.attributes[i].code] = ""

\* C29: validating the tree structureProductValues has just built, with the
\* same locale and channel, gives no warning: the common bag holds no
\* attribute of the family that is locale or channel specific, sku apart.
C29_StructuredTreeHasNoWarning ==
    rv.pc = "structured" =>
        /\ rv.validation.warnings = {}
        /\ \A k \in DOMAIN rv.values.common \ {"sku"} :
              LET i == find(rv.familyInfo.attributes, k)
              IN i # 0 => ScopeByFlags(rv.familyInfo.attributes[i]) = "common"

C29_Witness ==
    /\ rv.pc = "structured"
    /\ rv.validation.warnings = {}
    /\ Len(rv.familyInfo.attributes) = 2
    /\ Len(rv.familyInfo.commonAttributes) = 0
    /\ \A i \in DOMAIN rv.familyInfo.attributes :
          Truthy(rv.rawValues, rv.familyInfo.attributes[i].code)
    /\ "sku" \in DOMAIN rv.values.common
    /\ find(rv.familyInfo.attributes, "sku") # 0

\* the required attributes of the family whose place, for the locale and
\* channel validated, has no entry
AbsentRequired ==
    {i \in DOMAIN rv.familyInfo.requiredAttributes :
        LET a == rv.familyInfo.requiredAttributes[i]
        IN PlaceByFlags(a, rv.locale, rv.channel) \notin Places(rv.values, a.code)}

\* the required attributes whose place has no entry, or, in the common bag,
\* an empty one
UnfilledRequired ==
    AbsentRequired \cup
    {i \in DOMAIN rv.familyInfo.requiredAttributes :
        LET a == rv.familyInfo.requiredAttributes[i]
        IN /\ PlaceByFlags(a, rv.locale, rv.channel) = <<"common">>
           /\ a.code \in DOMAIN rv.values.common
           /\ rv.values.common[a.code] = ""}

\* the errors are one per required attribute of `missing`, each with the
\* path of the place and the code; valid tells whether there is none
OneErrorPerMissing(missing) ==
    /\ Len(rv.validation.errors) = Cardinality(missing)
    /\ \A i \in missing :
          LET a == rv.familyInfo.requiredAttributes[i]
          IN Cardinality({j \in DOMAIN rv.validation.errors :
                             rv.validation.errors[j] =
                                PlaceByFlags(a, rv.locale, rv.channel)
                                   \o <<a.code>>}) = 1
    /\ rv.validation.valid <=> missing = {}

ScopedKeysInCommon ==
    {k \in DOMAIN rv.values.common :
        LET i == find(rv.familyInfo.attributes, k)
        IN i # 0 /\ ScopeByFlags(rv.familyInfo.attributes[i]) # "common"}

\* C24: validateProductValues gives a warning, and no error, for every key
\* of the common bag whose attribute is locale or channel specific; valid
\* tells whether there is no error, whatever the warnings.
C24_WarningForEveryScopedKeyInCommon ==
    rv.pc = "validated" =>
        /\ \A k \in ScopedKeysInCommon :
              /\ <<"common", k>> \in rv.validation.warnings
              /\ \A j \in DOMAIN rv.validation.errors :
                    rv.validation.errors[j] # <<"common", k>>
        /\ rv.validation.valid <=> Len(rv.validation.errors) = 0

\* C24, as the code has it: sku in the common bag gets no warning.
C24_WarningForScopedKeyButSku ==
    rv.pc = "validated" =>
        /\ rv.validation.warnings =
              {<<"common", k>> : k \in ScopedKeysInCommon \ {"sku"}}
        /\ \A k \in ScopedKeysInCommon :
              \A j \in DOMAIN rv.validation.errors :
                 rv.validation.errors[j] # <<"common", k>>
        /\ rv.validation.valid <=> Len(rv.validation.errors) = 0

C24_Witness ==
    /\ rv.pc = "validated"
    /\ ScopedKeysInCommon = {"sku", "name"}
    /\ rv.validation.warnings = {<<"common", "name">>}
    /\ rv.validation.valid
    /\ rv.validation.errors = <<>>

\* what a step that ends an attribute lookup does to the resolver
AttributeLookupStep ==
    rv.pc = "attribute" /\ rv' # rv =>
        /\ rv'.pc \in {"attribute", "ready"}
        /\ rv'.error = NoResult
        /\ rv'.attributeCodes = Tail(rv.attributeCodes)
        /\ \/ /\ rv'.attributes = rv.attributes
              /\ rv'.skipped = rv.skipped + 1
           \/ /\ Len(rv'.attributes) = Len(rv.attributes) + 1
              /\ SubSeq(rv'.attributes, 1, Len(rv.attributes)) = rv.attributes
              /\ rv'.attributes[Len(rv'.attributes)].code = Head(rv.attributeCodes)
              /\ rv'.skipped = rv.skipped

\* what the resolver holds once getFamilyAttributeInfo has returned or thrown
FamilyInfoOutcome ==
    /\ rv.pc = "failed" =>
          /\ rv.error = rv.thrown
          /\ rv.error \in ClientErrors
          /\ rv.lookups = 0
          /\ rv.attributes = <<>>
    /\ rv.pc \in {"ready", "structured"} =>
          /\ rv.error = NoResult
          /\ rv.familyInfo.attributes = rv.attributes
          /\ Len(rv.attributes) + rv.skipped = rv.lookups

\* C26: an attribute lookup that fails is skipped: the call goes on, the
\* metadata collected before stays and the later lookups are still made;
\* a family lookup that fails ends the call with the error client.get
\* threw, before any attribute lookup.
C26_BestEffortPerAttribute ==
    [][AttributeLookupStep /\ FamilyInfoOutcome']_vars

\* one lookup failed between two that were answered
C26_Witness ==
    /\ rv.pc = "ready"
    /\ rv.lookups = 2
    /\ rv.skipped = 1
    /\ Len(rv.familyInfo.attributes) = 1
    /\ rv.attributeCodes = <<>>

\* C27: the token clearCache() removes after a 401 is the token the rejected
\* request carried, also when two request() calls run interleaved.
C27_InvalidateRemovesRejectedToken ==
    [][(tokenCache # Null /\ tokenCache' = Null) =>
          \E t \in Tasks :
              /\ task[t].pc = "fetch"
              /\ task'[t].clears = task[t].clears + 1
              /\ task[t].accessToken = tokenCache.accessToken]_vars

\* C28: smartCreateProduct sends the product-creation POST only when
\* validate_only is false and validateProductValues returned valid; with
\* validate_only it returns success = validation.valid, with an invalid
\* input success = false and the errors of the validation, and in both
\* cases no POST has been sent.
C28_PostOnlyWhenValidAndAsked ==
    /\ rv.posts <= 1
    /\ rv.posts = 1 =>
          ~rv.validate_only /\ rv.validation.valid /\ AbsentRequired = {}
    /\ rv.pc = "post" => rv.posts = 1
    /\ (rv.pc = "returned" /\ rv.validate_only) =>
          /\ rv.posts = 0
          /\ rv.result.success = rv.result.valid
          /\ rv.error = NoResult =>
                /\ rv.result.valid = rv.validation.valid
                /\ rv.result.errors = rv.validation.errors
    /\ (rv.pc = "returned" /\ rv.error = NoResult /\ ~rv.validation.valid) =>
          /\ rv.posts = 0
          /\ ~rv.result.success
          /\ rv.result.errors = rv.validation.errors
          /\ rv.result.errors # <<>>

\* an input without the required name, not validate_only: returned at once
C28_Witness ==
    /\ rv.pc = "returned"
    /\ ~rv.validate_only
    /\ rv.posts = 0
    /\ ~rv.result.success
    /\ rv.result.errors =
          <<<<"channel_locale_specific", "default", "en_US", "name">>>>

\* the token requests of grant g in the log of one getAccessToken() call
GrantRequests(log, g) == {i \in DOMAIN log : log[i].grant = g}

\* C30: every request() call under way ends (it returns or fails) provided
\* every network call and every sleep ends; it sends at most 3 resource
\* requests and at most 18 token requests, at most 3 refresh and 3
\* acquisition requests in each attempt; and a token request that fails
\* leaves the token cache as it was.
C30_CallEndsWithinBounds ==
    /\ [](\A t \in SeqTasks :
            /\ task[t].nreq <= 3
            /\ task[t].tokReqs <= 18
            /\ Cardinality(GrantRequests(task[t].gtLog, "refresh_token")) <= 3
            /\ Cardinality(GrantRequests(task[t].gtLog, "password")) <= 3)
    /\ [][\A t \in SeqTasks :
            (/\ task[t].pc = "tokWait"
             /\ task'[t].gtLog[Len(task[t].gtLog)].res = "fail")
            => tokenCache' = tokenCache]_vars
    /\ \A t \in SeqTasks :
          (task[t].pc \notin {"idle", "done"}) ~> (task[t].pc = "done")

\* a call that sent 18 token requests, 9 of each grant, and has failed
\* without a resource request, the cache still holding the expiring token
C30_Witness ==
    \E t \in SeqTasks :
        /\ task[t].pc = "done"
        /\ task[t].tokReqs = 18
        /\ task[t].nreq = 0
        /\ ~task[t].result.ok
        /\ tokenCache # Null
        /\ tokenCache.accessToken = task[t].gtTok

====
